---- MODULE Spec2Model ----
(***************************************************************************)
(* The BrainBrowser event model (src/brainbrowser/lib/events.js): objects  *)
(* given the event model by addEventModel, each with its own closure       *)
(* variables event_listeners and propagated_events, and the root node      *)
(* BrainBrowser.events, which has the event model too.                     *)
(*                                                                         *)
(* JavaScript runs one call at a time: every public call is one atomic     *)
(* action here, and a triggerEvent runs its whole synchronous dispatch     *)
(* (listeners, propagation, fallback) inside that action.  The variable    *)
(* `last` records the call that has just completed and its outcome, and    *)
(* `log` the listener invocations and nested triggerEvent entries of the   *)
(* last dispatch, in the order they happened.                              *)
(***************************************************************************)
EXTENDS Integers, Sequences, FiniteSets

VARIABLES event_listeners, propagated_events, last, log

vars == <<event_listeners, propagated_events, last, log>>

\* ------------------------------------------------------------------ bounds
\* Frames of recursion the engine allows before it throws RangeError.
StackLimit == 5
\* Propagation edges recorded at one time, over all objects.
MaxEdges == 3
\* Listeners registered over a run, host handlers and teardown listeners
\* together (a listener is never removed).
MaxListeners == 2

\* ----------------------------------------------------------------- objects
Root == "BrainBrowser.events"
Hosts == {"A", "B", "C"}
EventObjects == Hosts \cup {Root}
\* An object that never received the event model.
Plain == "plain"
AnyObject == EventObjects \cup {Plain}

Wildcard == "*"
Cleanup == "eventmodelcleanup"
EventNames == {"load", Cleanup, Wildcard}
\* The argument a caller leaves out.
Undefined == "undefined"
ArgLists == {<<>>, <<42>>}
HandlerIds == {"h1", "h2"}
None == "-"

\* A host handler: it records its call and does nothing else.
Handler(id) == [fn |-> id, object |-> None, other |-> None]
\* The closure propagateEventTo registers on `other`.
TeardownListener(object, other) == [fn |-> Cleanup, object |-> object, other |-> other]

\* ----------------------------------------------------------- array helpers
indexOf(seq, x) ==
  IF \E i \in 1..Len(seq) : seq[i] = x
  THEN (CHOOSE i \in 1..Len(seq) : seq[i] = x /\ \A j \in 1..(i - 1) : seq[j] # x) - 1
  ELSE -1

filter(seq, x) == SelectSeq(seq, LAMBDA target : target # x)

\* A faulty variant: the targets are pushed without looking for them in the array.
pushUnique_noCheck(propagation_targets, targets) == propagation_targets \o targets

RECURSIVE pushUnique(_, _)
pushUnique(propagation_targets, targets) ==
  IF targets = <<>> THEN propagation_targets
  ELSE pushUnique(IF indexOf(propagation_targets, Head(targets)) = -1
                  THEN Append(propagation_targets, Head(targets))
                  ELSE propagation_targets,
                  Tail(targets))

\* propagated_events of one object: its array of targets under every event
\* name, an event name never propagated having none
\* (propagated_events[event_name] || []).  Object.keys lists the names that
\* were propagated once, in the order of their first propagation; the code
\* uses that list only to test whether an object is a target under some
\* name, so the names are kept here in one fixed order.
KeyOrder == <<"load", Cleanup, Wildcard>>

keys(registry) == SelectSeq(KeyOrder, LAMBDA event_name : registry[event_name] # <<>>)

targetsOf(registry, event_name) == registry[event_name]

\* ------------------------------------------------------------ the queries
RECURSIVE unionOf(_, _, _)
unionOf(registry, event_names, propagation_targets) ==
  IF event_names = <<>> THEN propagation_targets
  ELSE unionOf(registry, Tail(event_names),
               pushUnique(propagation_targets, targetsOf(registry, Head(event_names))))

\* A faulty variant: the targets under "*" are listed before those under event_name.
directPropagationTargets_wildFirst(registry, event_name) ==
  LET event_names == IF event_name = Undefined THEN keys(registry)
                     ELSE <<Wildcard, event_name>>
  IN unionOf(registry, event_names, <<>>)

directPropagationTargets(registry, event_name) ==
  LET event_names == IF event_name = Undefined THEN keys(registry)
                     ELSE <<event_name, Wildcard>>
  IN unionOf(registry, event_names, <<>>)

\* The recursion has no visited set: on a graph with a cycle it never
\* returns, and the engine throws RangeError at its stack limit.
RECURSIVE allPropagationTargets(_, _, _, _)
RECURSIVE allTargetsFrom(_, _, _, _, _, _)
allTargetsFrom(pe, event_name, depth, direct_targets, i, propagation_targets) ==
  IF i > Len(direct_targets) THEN [threw |-> FALSE, value |-> propagation_targets]
  ELSE LET r == allPropagationTargets(pe, direct_targets[i], event_name, depth + 1)
       IN IF r.threw THEN r
          ELSE allTargetsFrom(pe, event_name, depth, direct_targets, i + 1,
                              pushUnique(propagation_targets, r.value))

allPropagationTargets(pe, object, event_name, depth) ==
  IF depth >= StackLimit THEN [threw |-> TRUE, value |-> <<>>]
  ELSE LET direct_targets == directPropagationTargets(pe[object], event_name)
       IN allTargetsFrom(pe, event_name, depth, direct_targets, 1, direct_targets)

\* ------------------------------------------------------- the operations
\* The program's state as the operations below thread it: the two closure
\* variables of every object, the dispatch log, and how the call ended.
State(el, pe) == [el |-> el, pe |-> pe, log |-> <<>>, result |-> "ok"]

throw(st, error) == [st EXCEPT !.result = error]

addEventListener(st, object, event_name, callback) ==
  [st EXCEPT !.el[object][event_name] = Append(@, callback)]

\* A faulty variant: the targets under "*" are left alone.
stopPropagatingTo_namedOnly(st, object, other) ==
  [st EXCEPT !.pe[object] = [event_name \in EventNames |->
                               IF event_name = Wildcard THEN @[event_name]
                               ELSE filter(@[event_name], other)]]

stopPropagatingTo(st, object, other) ==
  [st EXCEPT !.pe[object] = [event_name \in EventNames |-> filter(@[event_name], other)]]

\* propagated_events[event_name].push(other)
push(registry, event_name, other) ==
  [registry EXCEPT ![event_name] = Append(@, other)]

\* A faulty variant: only the root node is refused, the target's targets are not walked.
wouldCycle_rootOnly(pe, object, event_name, other) ==
  IF object = Root THEN "Cycle" ELSE "ok"

\* A faulty variant: the root node is not refused as the source.
wouldCycle_noRootCheck(pe, object, event_name, other) ==
  LET all == allPropagationTargets(pe, other, event_name, 0)
  IN IF all.threw THEN "RangeError"
     ELSE IF indexOf(all.value, object) # -1 THEN "Cycle" ELSE "ok"

\* A faulty variant: the root node is refused as the target too.
wouldCycle_rootEitherEnd(pe, object, event_name, other) ==
  IF object = Root \/ other = Root THEN "Cycle"
  ELSE LET all == allPropagationTargets(pe, other, event_name, 0)
       IN IF all.threw THEN "RangeError"
          ELSE IF indexOf(all.value, object) # -1 THEN "Cycle" ELSE "ok"

\* The guard of propagateEventTo: the object is the root node, or the
\* target's transitive targets for event_name already hold the object
\* ("Cycle"); "RangeError" when the walk of the targets does not return.
wouldCycle(pe, object, event_name, other) ==
  IF object = Root THEN "Cycle"
  ELSE LET all == allPropagationTargets(pe, other, event_name, 0)
       IN IF all.threw THEN "RangeError"
          ELSE IF indexOf(all.value, object) # -1 THEN "Cycle" ELSE "ok"

\* A faulty variant: the teardown listener is registered with the first edge to
\* the target under each event name.
propagateEventTo_listenerPerName(st, object, event_name, other) ==
  IF other \notin EventObjects THEN throw(st, "NoEventModel")
  ELSE
    LET check == wouldCycle(st.pe, object, event_name, other)
    IN IF check # "ok" THEN throw(st, check)
       ELSE
         LET absent == indexOf(targetsOf(st.pe[object], event_name), other) = -1
             s1 == IF absent
                   THEN addEventListener(st, other, Cleanup, TeardownListener(object, other))
                   ELSE st
         IN IF absent THEN [s1 EXCEPT !.pe[object] = push(@, event_name, other)] ELSE s1

\* A faulty variant: the target is pushed without looking for it in the array.
propagateEventTo_alwaysPush(st, object, event_name, other) ==
  IF other \notin EventObjects THEN throw(st, "NoEventModel")
  ELSE
    LET check == wouldCycle(st.pe, object, event_name, other)
    IN IF check # "ok" THEN throw(st, check)
       ELSE
         LET first == indexOf(directPropagationTargets(st.pe[object], Undefined), other) = -1
             s1 == IF first
                   THEN addEventListener(st, other, Cleanup, TeardownListener(object, other))
                   ELSE st
         IN [s1 EXCEPT !.pe[object] = push(@, event_name, other)]

\* A faulty variant: the teardown listener and the edge are recorded before the
\* cycle check throws.
propagateEventTo_checkLast(st, object, event_name, other) ==
  IF other \notin EventObjects THEN throw(st, "NoEventModel")
  ELSE
    LET check == wouldCycle(st.pe, object, event_name, other)
        first == indexOf(directPropagationTargets(st.pe[object], Undefined), other) = -1
        s1 == IF first
              THEN addEventListener(st, other, Cleanup, TeardownListener(object, other))
              ELSE st
        absent == indexOf(targetsOf(st.pe[object], event_name), other) = -1
        s2 == IF absent THEN [s1 EXCEPT !.pe[object] = push(@, event_name, other)] ELSE s1
    IN IF check # "ok" THEN throw(s2, check) ELSE s2

propagateEventTo(st, object, event_name, other) ==
  IF other \notin EventObjects THEN throw(st, "NoEventModel")
  ELSE
    LET check == wouldCycle(st.pe, object, event_name, other)
    IN IF check # "ok" THEN throw(st, check)
       ELSE
         LET first == indexOf(directPropagationTargets(st.pe[object], Undefined), other) = -1
             s1 == IF first
                   THEN addEventListener(st, other, Cleanup, TeardownListener(object, other))
                   ELSE st
             absent == indexOf(targetsOf(st.pe[object], event_name), other) = -1
         IN IF absent THEN [s1 EXCEPT !.pe[object] = push(@, event_name, other)] ELSE s1

propagateEventFrom(st, object, event_name, other) ==
  IF other \notin EventObjects THEN throw(st, "TypeError")
  ELSE propagateEventTo(st, other, event_name, object)

\* A faulty variant: the teardown listener never acts.
teardownActs_never(callback, trigger) == FALSE

\* A faulty variant: the teardown listener acts whatever its execution context.
teardownActs_always(callback, trigger) == TRUE

\* this === other, the test of the teardown listener.
teardownActs(callback, trigger) == trigger = callback.other

\* A handler of the host that changes the graph when it is called:
\* object.propagateEventTo("load", other), object.stopPropagatingTo(other) or
\* other.triggerEvent("eventmodelcleanup").
GraphHandlerKinds == {"propagateEventTo", "stopPropagatingTo", "triggerEvent"}
GraphHandler(fn, object, other) == [fn |-> fn, object |-> object, other |-> other]
\* The stack frame of a callback that calls back into the event model.
ListenerFrame == "listener"

RECURSIVE triggerEvent(_, _, _, _, _)
\* One callback.apply(trigger, args).  A plain host handler only records the
\* call; the teardown listener acts when its execution context is its own
\* target; a graph handler makes its call, whose error, if any, is thrown
\* through the dispatch.
invoke(st, callback, trigger, args, frame) ==
  LET logged == [st EXCEPT !.log = Append(@, [kind |-> "call", frame |-> frame,
                                               callback |-> callback,
                                               this |-> trigger, args |-> args])]
  IN CASE callback.fn = Cleanup ->
            IF teardownActs(callback, trigger)
            THEN stopPropagatingTo(logged, callback.object, callback.other)
            ELSE logged
       [] callback.fn = "propagateEventTo" ->
            propagateEventTo(logged, callback.object, "load", callback.other)
       [] callback.fn = "stopPropagatingTo" ->
            stopPropagatingTo(logged, callback.object, callback.other)
       [] callback.fn = "triggerEvent" ->
            triggerEvent(logged, callback.other, callback.other, <<Cleanup>>,
                         Append(frame, ListenerFrame))
       [] OTHER -> logged

\* event_listeners[event_name].forEach: the indices 1..n fixed when it
\* starts, each element read when its turn comes.
RECURSIVE forEachListener(_, _, _, _, _, _, _, _)
forEachListener(st, object, event_name, i, n, trigger, args, frame) ==
  IF i > n \/ st.result # "ok" THEN st
  ELSE forEachListener(invoke(st, st.el[object][event_name][i], trigger, args, frame),
                       object, event_name, i + 1, n, trigger, args, frame)

\* A faulty variant: the listeners under "*" run before those under event_name.
runListeners_wildFirst(st, object, trigger, full_args, frame) ==
  LET event_name == full_args[1]
      args == Tail(full_args)
      wild == forEachListener(st, object, Wildcard, 1,
                              Len(st.el[object][Wildcard]), trigger, full_args, frame)
  IN forEachListener(wild, object, event_name, 1,
                     Len(wild.el[object][event_name]), trigger, args, frame)

\* The two forEach of triggerEvent: the listeners under event_name with
\* args, then the listeners under "*" with full_args.
runListeners(st, object, trigger, full_args, frame) ==
  LET event_name == full_args[1]
      args == Tail(full_args)
      named == forEachListener(st, object, event_name, 1,
                               Len(st.el[object][event_name]), trigger, args, frame)
  IN forEachListener(named, object, Wildcard, 1,
                     Len(named.el[object][Wildcard]), trigger, full_args, frame)

\* A faulty variant: every object but the root falls back, whatever its targets.
fallsBack_always(propagate_to, object) == object # Root

\* A faulty variant: no object falls back on the root.
fallsBack_never(propagate_to, object) == FALSE

\* A faulty variant: the root node falls back on itself.
fallsBack_rootToo(propagate_to, object) == Len(propagate_to) = 0

\* propagate_to.length === 0 && object !== BrainBrowser.events
fallsBack(propagate_to, object) == Len(propagate_to) = 0 /\ object # Root

RECURSIVE forEachTarget(_, _, _, _, _, _)
\* propagate_to.forEach(other => other.triggerEvent.apply(trigger, full_args))
forEachTarget(st, propagate_to, i, trigger, full_args, frame) ==
  IF i > Len(propagate_to) \/ st.result # "ok" THEN st
  ELSE forEachTarget(triggerEvent(st, propagate_to[i], trigger, full_args, frame),
                     propagate_to, i + 1, trigger, full_args, frame)

\* A faulty variant: the targets are read after the listeners have run.
triggerEvent_liveTargets(st, object, trigger, full_args, path) ==
  IF Len(path) >= StackLimit THEN throw(st, "RangeError")
  ELSE
    LET frame == Append(path, object)
        entered == [st EXCEPT !.log = Append(@, [kind |-> "trigger", frame |-> frame,
                                                  callback |-> Handler(None),
                                                  this |-> trigger, args |-> full_args])]
        listened == runListeners(entered, object, trigger, full_args, frame)
        propagate_to == directPropagationTargets(listened.pe[object], full_args[1])
        propagated == forEachTarget(listened, propagate_to, 1, trigger, full_args, frame)
    IN IF propagated.result = "ok" /\ fallsBack(propagate_to, object)
       THEN triggerEvent(propagated, Root, trigger, full_args, frame)
       ELSE propagated

\* `path` holds the objects whose triggerEvent is on the stack above this
\* call; the engine throws RangeError when the stack is full.  The log
\* records the entry into the call, then every listener it invokes.
triggerEvent(st, object, trigger, full_args, path) ==
  IF Len(path) >= StackLimit THEN throw(st, "RangeError")
  ELSE
    LET frame == Append(path, object)
        propagate_to == directPropagationTargets(st.pe[object], full_args[1])
        entered == [st EXCEPT !.log = Append(@, [kind |-> "trigger", frame |-> frame,
                                                  callback |-> Handler(None),
                                                  this |-> trigger, args |-> full_args])]
        listened == runListeners(entered, object, trigger, full_args, frame)
        propagated == forEachTarget(listened, propagate_to, 1, trigger, full_args, frame)
    IN IF propagated.result = "ok" /\ fallsBack(propagate_to, object)
       THEN triggerEvent(propagated, Root, trigger, full_args, frame)
       ELSE propagated

\* ------------------------------------------------------------ the machine
NoCall == [op |-> "none", object |-> None, event_name |-> None, other |-> None,
           args |-> <<>>, result |-> None]

Call(op, object, event_name, other, args, result) ==
  [op |-> op, object |-> object, event_name |-> event_name, other |-> other,
   args |-> args, result |-> result]

EdgeCount(pe) ==
  LET RECURSIVE sum(_, _)
      sum(registry, i) == IF i > Len(KeyOrder) THEN 0
                          ELSE Len(registry[KeyOrder[i]]) + sum(registry, i + 1)
      RECURSIVE over(_)
      over(objects) == IF objects = {} THEN 0
                       ELSE LET o == CHOOSE o \in objects : TRUE
                            IN sum(pe[o], 1) + over(objects \ {o})
  IN over(EventObjects)

ListenerCount(el) ==
  LET RECURSIVE over(_)
      over(slots) == IF slots = {} THEN 0
                     ELSE LET s == CHOOSE s \in slots : TRUE
                          IN Len(el[s[1]][s[2]]) + over(slots \ {s})
  IN over(EventObjects \X EventNames)

WithinBounds(st) ==
  /\ EdgeCount(st.pe) <= MaxEdges
  /\ ListenerCount(st.el) <= MaxListeners

\* addEventModel on every object, BrainBrowser.events included.
Init ==
  /\ event_listeners = [o \in EventObjects |-> [e \in EventNames |-> <<>>]]
  /\ propagated_events = [o \in EventObjects |-> [e \in EventNames |-> <<>>]]
  /\ last = NoCall
  /\ log = <<>>

Commit(st, call) ==
  /\ WithinBounds(st)
  /\ event_listeners' = st.el
  /\ propagated_events' = st.pe
  /\ log' = st.log
  /\ last' = call

Now == State(event_listeners, propagated_events)

AddEventListener(object, event_name, id) ==
  /\ last = NoCall
  /\ Commit(addEventListener(Now, object, event_name, Handler(id)),
            Call("addEventListener", object, event_name, id, <<>>, "ok"))

TriggerEvent(object, event_name, args) ==
  /\ last = NoCall
  /\ LET st == triggerEvent(Now, object, object, <<event_name>> \o args, <<>>)
     IN Commit(st, Call("triggerEvent", object, event_name, None, args, st.result))

PropagateEventTo(object, event_name, other) ==
  /\ last = NoCall
  /\ LET st == propagateEventTo(Now, object, event_name, other)
     IN Commit(st, Call("propagateEventTo", object, event_name, other, <<>>, st.result))

PropagateEventFrom(object, event_name, other) ==
  /\ last = NoCall
  /\ LET st == propagateEventFrom(Now, object, event_name, other)
     IN Commit(st, Call("propagateEventFrom", object, event_name, other, <<>>, st.result))

StopPropagatingTo(object, other) ==
  /\ last = NoCall
  /\ Commit(stopPropagatingTo(Now, object, other),
            Call("stopPropagatingTo", object, None, other, <<>>, "ok"))

\* The query: the array it returns is recorded as the call's args.
DirectPropagationTargets(object, event_name) ==
  /\ last = NoCall
  /\ Commit(Now, Call("directPropagationTargets", object, event_name, None,
                      directPropagationTargets(propagated_events[object], event_name), "ok"))

\* The call has returned to the host, which goes on to its next call.
Return ==
  /\ last # NoCall
  /\ last' = NoCall
  /\ log' = <<>>
  /\ UNCHANGED <<event_listeners, propagated_events>>

Next ==
  \/ \E object \in EventObjects, event_name \in EventNames, id \in HandlerIds :
       AddEventListener(object, event_name, id)
  \/ \E object \in EventObjects, event_name \in EventNames, args \in ArgLists :
       TriggerEvent(object, event_name, args)
  \/ \E object \in EventObjects, event_name \in EventNames, other \in AnyObject :
       PropagateEventTo(object, event_name, other)
  \/ \E object \in EventObjects, event_name \in EventNames, other \in AnyObject :
       PropagateEventFrom(object, event_name, other)
  \/ \E object \in EventObjects, other \in AnyObject :
       StopPropagatingTo(object, other)
  \/ \E object \in EventObjects, event_name \in EventNames \cup {Undefined} :
       DirectPropagationTargets(object, event_name)
  \/ Return

Spec == Init /\ [][Next]_vars

\* A host whose handlers change the graph while an event is dispatched: a
\* handler registered on `object` under "load" that adds an edge from `object`
\* to `other`, removes `object`'s edges to `other`, or triggers the cleanup
\* event on `other`.
AddGraphListener(object, fn, other) ==
  /\ last = NoCall
  /\ Commit(addEventListener(Now, object, "load",
                             GraphHandler(fn, IF fn = "triggerEvent" THEN None ELSE object,
                                          other)),
            Call("addEventListener", object, "load", other, <<>>, "ok"))

NextGraph ==
  \/ \E object \in Hosts, fn \in GraphHandlerKinds, other \in Hosts :
       AddGraphListener(object, fn, other)
  \/ \E object \in EventObjects, event_name \in EventNames, args \in ArgLists :
       TriggerEvent(object, event_name, args)
  \/ \E object \in EventObjects, event_name \in EventNames, other \in AnyObject :
       PropagateEventTo(object, event_name, other)
  \/ \E object \in EventObjects, other \in AnyObject :
       StopPropagatingTo(object, other)
  \/ Return

SpecGraph == Init /\ [][NextGraph]_vars

\* ------------------------------------------------- vocabulary of the claims
\* The edge (source, event_name, target) is recorded.
Edge(pe, source, event_name, target) ==
  \E i \in 1..Len(pe[source][event_name]) : pe[source][event_name][i] = target

\* The objects a trigger of event_name on `object` is forwarded to.
Forwards(pe, event_name, object) ==
  {t \in EventObjects : Edge(pe, object, event_name, t) \/ Edge(pe, object, Wildcard, t)}

RECURSIVE Closure(_, _, _)
Closure(pe, event_name, reached) ==
  LET more == reached \cup UNION {Forwards(pe, event_name, o) : o \in reached}
  IN IF more = reached THEN reached ELSE Closure(pe, event_name, more)

\* The objects reachable from `object` over edges labelled event_name or "*".
Reachable(pe, event_name, object) == Closure(pe, event_name, Forwards(pe, event_name, object))

IsPrefix(p, s) == Len(p) <= Len(s) /\ \A i \in 1..Len(p) : p[i] = s[i]

\* The targets under the literal name in insertion order, then those under "*".
ExpectedTargets(registry, event_name) ==
  IF event_name = Wildcard THEN registry[Wildcard]
  ELSE registry[event_name]
       \o SelectSeq(registry[Wildcard],
                    LAMBDA t : \A i \in 1..Len(registry[event_name]) : registry[event_name][i] # t)

\* The objects a triggerEvent on `object` has to trigger in turn.
DueTargets(registry, event_name, object) ==
  LET direct == ExpectedTargets(registry, event_name)
  IN IF direct = <<>> /\ object # Root THEN <<Root>> ELSE direct

\* The objects triggered, in order, from the call whose frame is f.
ChildrenOf(l, f) ==
  LET kids == SelectSeq(l, LAMBDA e : /\ e.kind = "trigger"
                                       /\ Len(e.frame) = Len(f) + 1
                                       /\ IsPrefix(f, e.frame))
  IN [i \in 1..Len(kids) |-> kids[i].frame[Len(f) + 1]]

\* The frames of the triggerEvent calls of the dispatch, in order.
Entered(l) ==
  LET calls == SelectSeq(l, LAMBDA e : e.kind = "trigger")
  IN [i \in 1..Len(calls) |-> calls[i].frame]

PropagateCall == last.op = "propagateEventTo"
TriggerCall == last.op = "triggerEvent"

\* ---------------------------------------------------------------- claims
\* C1: after any sequence of propagateEventTo, propagateEventFrom and
\* stopPropagatingTo calls the propagation graph is acyclic: for every event
\* name E no object reaches itself over edges labelled E or "*".
C1_Acyclic ==
  \A event_name \in EventNames, object \in EventObjects :
    object \notin Reachable(propagated_events, event_name, object)

\* C2: triggerEvent terminates on every reachable propagation graph (host
\* handlers return and do not re-trigger): the dispatch ends without the
\* engine running out of stack.
C2_TriggerTerminates == TriggerCall => last.result = "ok"

\* C3: A.propagateEventTo(E, A) fails with the cycle error for every event
\* name E, and no edge from an object to itself is ever recorded.
C3_SelfPropagationFails ==
  /\ PropagateCall /\ last.object = last.other => last.result = "Cycle"
  /\ \A object \in EventObjects, event_name \in EventNames :
       ~Edge(propagated_events, object, event_name, object)

\* C4 as stated, in the case it singles out: if A already propagates E1 to B,
\* B.propagateEventTo(E2, A) fails with the cycle error also when E2 differs
\* from E1 and neither is "*".  (A's registry is not touched by a call on B,
\* so the edge from A to B is the one the call found.)
C4_ReverseEdgeFails ==
  ( /\ PropagateCall
    /\ last.object \in EventObjects /\ last.other \in EventObjects
    /\ last.object # last.other
    /\ last.event_name # Wildcard
    /\ \E e1 \in EventNames \ {Wildcard, last.event_name} :
         Edge(propagated_events, last.other, e1, last.object) )
  => last.result = "Cycle"

\* C4 amended: if A already propagates E1 to B, B.propagateEventTo(E2, A) fails
\* when E1 is E2 or "*": with the cycle error, or with RangeError when the walk
\* of A's targets does not return.
C4_ReverseEdgeSameEvent ==
  ( /\ PropagateCall
    /\ last.object \in EventObjects /\ last.other \in EventObjects
    /\ last.object # last.other
    /\ \E e1 \in {last.event_name, Wildcard} :
         Edge(propagated_events, last.other, e1, last.object) )
  => last.result \in {"Cycle", "RangeError"}

C4_Witness ==
  /\ PropagateCall
  /\ last.object \in Hosts /\ last.other \in Hosts /\ last.object # last.other
  /\ last.event_name # Wildcard
  /\ Edge(propagated_events, last.other, last.event_name, last.object)
  /\ last.result = "Cycle"

\* C5: A.propagateEventTo(E, T) fails with the cycle error whenever the objects
\* reachable from T over edges labelled E or "*" include A; when they do not,
\* A is not the root and T has the event model, the call succeeds and records
\* the edge (A, E, T).
C5_CycleCheckByReachability ==
  [][ (last'.op = "propagateEventTo" /\ last'.other \in EventObjects)
      => IF last'.object \in Reachable(propagated_events, last'.event_name, last'.other)
         THEN last'.result = "Cycle"
         ELSE last'.object # Root
              => /\ last'.result = "ok"
                 /\ Edge(propagated_events', last'.object, last'.event_name, last'.other)
    ]_vars

\* C6: the root node is never the source of an edge: propagateEventTo on the
\* root and propagateEventFrom(E, root) on any object fail, the root's
\* registry of targets stays empty, and a trigger on the root runs on the
\* root alone.
C6_RootNeverPropagates ==
  /\ \A event_name \in EventNames : propagated_events[Root][event_name] = <<>>
  /\ PropagateCall /\ last.object = Root => last.result \in {"Cycle", "NoEventModel"}
  /\ last.op = "propagateEventFrom" /\ last.other = Root => last.result = "Cycle"
  /\ TriggerCall /\ last.object = Root
     => /\ last.result = "ok"
        /\ \A i \in 1..Len(log) : log[i].frame = <<Root>>

C6_Witness ==
  /\ last.op = "propagateEventFrom"
  /\ last.object \in Hosts /\ last.other = Root
  /\ last.result = "Cycle"
  /\ \E o \in Hosts, event_name \in EventNames : propagated_events[o][event_name] # <<>>

\* C7 as stated: A.propagateEventTo(E, root) fails with the cycle error for
\* every non-root A, and no recorded edge has the root as its target.
C7_RootNeverTarget ==
  /\ PropagateCall /\ last.object \in Hosts /\ last.other = Root => last.result = "Cycle"
  /\ \A object \in EventObjects, event_name \in EventNames :
       ~Edge(propagated_events, object, event_name, Root)

\* C7 amended: the root node is accepted as a target: for every non-root A,
\* A.propagateEventTo(E, root) and root.propagateEventFrom(E, A) succeed and
\* record the edge (A, E, root).
C7_RootAcceptedAsTarget ==
  /\ PropagateCall /\ last.object \in Hosts /\ last.other = Root
     => /\ last.result = "ok"
        /\ Edge(propagated_events, last.object, last.event_name, Root)
  /\ last.op = "propagateEventFrom" /\ last.object = Root /\ last.other \in Hosts
     => /\ last.result = "ok"
        /\ Edge(propagated_events, last.other, last.event_name, Root)

C7_Witness ==
  /\ PropagateCall /\ last.object \in Hosts /\ last.other = Root
  /\ last.result = "ok"
  /\ Edge(propagated_events, last.object, last.event_name, Root)

\* C8: propagation is depth-first and in edge order.  In the dispatch of E
\* triggered on A every call runs with A as execution context and the original
\* arguments; each triggerEvent call triggers, in turn, the targets under E in
\* insertion order and then those under "*" (the root when there is none);
\* its own listeners run before any of them, and all that a target's dispatch
\* does comes before the next target starts.  A dispatch cut by RangeError has
\* done a prefix of this.
C8_DepthFirstInEdgeOrder ==
  [][ last'.op = "triggerEvent"
      => LET A == last'.object
             E == last'.event_name
             l == log'
             n == Len(l)
         IN /\ n >= 1 /\ l[1].kind = "trigger" /\ l[1].frame = <<A>>
            /\ \A i \in 1..n :
                 /\ l[i].this = A
                 /\ l[i].kind = "trigger" => l[i].args = <<E>> \o last'.args
            /\ \A i \in 1..n :
                 l[i].kind = "trigger"
                 => LET f == l[i].frame
                        object == f[Len(f)]
                        registry == IF i = 1 THEN propagated_events[object]
                                    ELSE propagated_events'[object]
                        due == DueTargets(registry, E, object)
                    IN IF last'.result = "ok" THEN ChildrenOf(l, f) = due
                       ELSE IsPrefix(ChildrenOf(l, f), due)
            /\ \A i, j \in 1..n :
                 i < j => ~(IsPrefix(l[j].frame, l[i].frame) /\ l[j].frame # l[i].frame)
            /\ \A i, j, k \in 1..n :
                 i < j /\ j < k
                 => \A m \in 1..Len(l[i].frame) :
                      IsPrefix(SubSeq(l[i].frame, 1, m), l[k].frame)
                      => IsPrefix(SubSeq(l[i].frame, 1, m), l[j].frame)
    ]_vars

\* A propagates "load" to B and B to C: the event fires on A, B, C (and then
\* on the root, C having no target).
C8_Witness ==
  /\ TriggerCall /\ last.result = "ok" /\ last.event_name = "load" /\ last.args = <<42>>
  /\ \E a, b, c \in Hosts :
       /\ a # b /\ b # c /\ a # c /\ last.object = a
       /\ Edge(propagated_events, a, "load", b)
       /\ Edge(propagated_events, b, "load", c)
       /\ Entered(log) = << <<a>>, <<a, b>>, <<a, b, c>>, <<a, b, c, Root>> >>

\* C9: one trigger of E with arguments X on A calls A's own handlers in this
\* order: every entry of listeners[E] in registration order with X, then every
\* entry of listeners["*"] in registration order with E prepended to X.
C9_OwnHandlersInOrder ==
  TriggerCall
  => LET A == last.object
         E == last.event_name
         own == SelectSeq(log, LAMBDA e : e.kind = "call" /\ e.frame = <<A>>)
         named == event_listeners[A][E]
         wild == event_listeners[A][Wildcard]
     IN /\ Len(own) = Len(named) + Len(wild)
        /\ \A i \in 1..Len(named) :
             own[i].callback = named[i] /\ own[i].args = last.args
        /\ \A i \in 1..Len(wild) :
             /\ own[Len(named) + i].callback = wild[i]
             /\ own[Len(named) + i].args = <<E>> \o last.args

C9_Witness ==
  /\ TriggerCall /\ last.event_name = "load" /\ last.args = <<42>>
  /\ event_listeners[last.object]["load"] # <<>>
  /\ event_listeners[last.object][Wildcard] # <<>>
  /\ Len(log) >= 3
  /\ log[2].callback = event_listeners[last.object]["load"][1]
  /\ log[3].callback = event_listeners[last.object][Wildcard][1]
  /\ log[3].args = <<"load", 42>>

\* C10: the fallback is scoped to the event name: when a non-root A has no
\* target under E and none under "*", whatever it has under other names, a
\* trigger of E on A triggers E on the root exactly once, after A's own
\* listeners, with the same arguments.
C10_FallbackPerEventName ==
  [][ ( /\ last'.op = "triggerEvent"
        /\ last'.object \in Hosts
        /\ propagated_events[last'.object][last'.event_name] = <<>>
        /\ propagated_events[last'.object][Wildcard] = <<>> )
      => LET A == last'.object
             l == log'
         IN /\ last'.result = "ok"
            /\ Entered(l) = << <<A>>, <<A, Root>> >>
            /\ \A i \in 1..Len(l) :
                 l[i].kind = "trigger" => l[i].args = <<last'.event_name>> \o last'.args
            /\ \A i, j \in 1..Len(l) :
                 l[i].frame = <<A>> /\ l[j].frame = <<A, Root>> => i < j
    ]_vars

C10_Witness ==
  /\ TriggerCall /\ last.object \in Hosts /\ last.event_name = "load"
  /\ propagated_events[last.object]["load"] = <<>>
  /\ propagated_events[last.object][Wildcard] = <<>>
  /\ propagated_events[last.object][Cleanup] # <<>>
  /\ event_listeners[last.object]["load"] # <<>>
  /\ Entered(log) = << <<last.object>>, <<last.object, Root>> >>

\* C11 as stated: when A has at least one target under E or "*", A's
\* triggerEvent of E does not itself trigger E on the root.
C11_RootNotTriggeredFromA ==
  [][ ( /\ last'.op = "triggerEvent"
        /\ ExpectedTargets(propagated_events[last'.object], last'.event_name) # <<>> )
      => \A i \in 1..Len(log') :
           ~(log'[i].kind = "trigger" /\ log'[i].frame = <<last'.object, Root>>)
    ]_vars

\* C11 amended: when A has at least one target under E or "*", the fallback
\* does not fire: A's triggerEvent of E triggers its targets, each once and in
\* order, and nothing after them; the root is triggered from A only where it
\* is one of those targets.  A dispatch cut by RangeError has done a prefix.
C11_NoFallbackWithTargets ==
  [][ ( /\ last'.op = "triggerEvent"
        /\ ExpectedTargets(propagated_events[last'.object], last'.event_name) # <<>> )
      => LET A == last'.object
             targets == ExpectedTargets(propagated_events[A], last'.event_name)
             triggered == ChildrenOf(log', <<A>>)
         IN IF last'.result = "ok" THEN triggered = targets
            ELSE IsPrefix(triggered, targets)
    ]_vars

\* A forwards "load" to other hosts only: its targets are triggered, and the
\* root is reached from a target that has none, never from A.
C11_Witness ==
  /\ TriggerCall /\ last.result = "ok" /\ last.object \in Hosts
  /\ last.event_name = "load"
  /\ ExpectedTargets(propagated_events[last.object], "load") # <<>>
  /\ ~Edge(propagated_events, last.object, "load", Root)
  /\ ~Edge(propagated_events, last.object, Wildcard, Root)
  /\ ChildrenOf(log, <<last.object>>) = ExpectedTargets(propagated_events[last.object], "load")
  /\ \E i \in 1..Len(log) : log[i].kind = "trigger" /\ Len(log[i].frame) = 3
                             /\ log[i].frame[3] = Root

\* C12: a triggerEvent of E on A whose dispatch terminates triggers E on the
\* root node at least once, with the original arguments: every listener of the
\* root under E is invoked with X, and every listener of the root under "*"
\* with E prepended to X.
C12_EveryEventReachesRoot ==
  TriggerCall /\ last.result = "ok"
  => LET E == last.event_name
         full_args == <<E>> \o last.args
     IN /\ \E i \in 1..Len(log) :
             /\ log[i].kind = "trigger" /\ log[i].frame[Len(log[i].frame)] = Root
             /\ log[i].args = full_args
        /\ \A k \in 1..Len(event_listeners[Root][E]) :
             \E i \in 1..Len(log) :
               /\ log[i].kind = "call" /\ log[i].frame[Len(log[i].frame)] = Root
               /\ log[i].callback = event_listeners[Root][E][k]
               /\ log[i].args = last.args
        /\ \A k \in 1..Len(event_listeners[Root][Wildcard]) :
             \E i \in 1..Len(log) :
               /\ log[i].kind = "call" /\ log[i].frame[Len(log[i].frame)] = Root
               /\ log[i].callback = event_listeners[Root][Wildcard][k]
               /\ log[i].args = full_args

\* A forwards "load" to B, B has no target: the root's handler under "load"
\* runs from B's fallback.
C12_Witness ==
  /\ TriggerCall /\ last.result = "ok" /\ last.event_name = "load" /\ last.args = <<42>>
  /\ \E a, b \in Hosts :
       /\ a # b /\ last.object = a
       /\ Entered(log) = << <<a>>, <<a, b>>, <<a, b, Root>> >>
  /\ event_listeners[Root]["load"] # <<>>
  /\ \E i \in 1..Len(log) :
       /\ log[i].kind = "call" /\ Len(log[i].frame) = 3
       /\ log[i].callback = event_listeners[Root]["load"][1]
       /\ log[i].args = <<42>>

\* Some object holds an edge to `target`, under some event name.
HasSource(pe, target) ==
  \E source \in EventObjects, event_name \in EventNames : Edge(pe, source, event_name, target)

\* C13: when "eventmodelcleanup" is triggered on B, every object that was
\* propagating to B has dropped all its edges to B when the call ends,
\* however it ends (host handlers add no edge).  And a trigger of any event on
\* another object, made while no object holds an edge to B, does not reach B:
\* B's triggerEvent is not entered (the root node excepted, which is still
\* reached by the fallback).
C13_CleanupDropsEdges ==
  [][ /\ (last'.op = "triggerEvent" /\ last'.event_name = Cleanup)
         => ~HasSource(propagated_events', last'.object)
      /\ last'.op = "triggerEvent"
         => \A B \in Hosts \ {last'.object} :
              ~HasSource(propagated_events, B)
              => \A i \in 1..Len(log') :
                   \A k \in 1..Len(log'[i].frame) : log'[i].frame[k] # B
    ]_vars

\* The cleanup event triggered on B ran the teardown listeners of two
\* sources, each of which was given an edge to B, and no object holds an edge
\* to B any more.
C13_Witness ==
  /\ TriggerCall /\ last.event_name = Cleanup /\ last.object \in Hosts
  /\ \E a, c \in Hosts \ {last.object} :
       /\ a # c
       /\ \E i, j \in 1..Len(log) :
            /\ i < j
            /\ log[i].kind = "call" /\ log[i].frame = <<last.object>>
            /\ log[i].callback = TeardownListener(a, last.object)
            /\ log[j].kind = "call" /\ log[j].frame = <<last.object>>
            /\ log[j].callback = TeardownListener(c, last.object)
  /\ ~HasSource(propagated_events, last.object)

\* C14: a failing propagateEventTo or propagateEventFrom mutates nothing: when
\* the call throws (the missing event model, the cycle error, or any other
\* error), the listeners and the propagation targets of every object are
\* exactly as before the call.
C14_FailureMutatesNothing ==
  [][ (last'.op \in {"propagateEventTo", "propagateEventFrom"} /\ last'.result # "ok")
      => /\ event_listeners' = event_listeners
         /\ propagated_events' = propagated_events
    ]_vars

\* B already propagates E to A, and A.propagateEventTo(E, B) has failed with
\* the cycle error: no edge from A to B, no teardown listener on B.
C14_Witness ==
  /\ PropagateCall /\ last.result = "Cycle"
  /\ last.object \in Hosts /\ last.other \in Hosts /\ last.object # last.other
  /\ Edge(propagated_events, last.other, last.event_name, last.object)
  /\ \A event_name \in EventNames :
       ~Edge(propagated_events, last.object, event_name, last.other)
  /\ event_listeners[last.other][Cleanup] = <<>>
  /\ event_listeners[last.object][Cleanup] # <<>>

\* The sequence without its occurrences of `target`, the rest in order.
Without(targets, target) == SelectSeq(targets, LAMBDA t : t # target)

\* C15: A.stopPropagatingTo(T) never fails; afterwards T is in the target
\* sequence of no event name of A, "*" included, A's other targets are as
\* they were and in the same order, and A's listeners and every other
\* object's registries are unchanged.  It is idempotent: when A holds no edge
\* to T (as after a first call) the call changes nothing.
C15_StopPropagatingTo ==
  [][ last'.op = "stopPropagatingTo"
      => LET A == last'.object
             T == last'.other
         IN /\ last'.result = "ok"
            /\ \A event_name \in EventNames :
                 /\ ~Edge(propagated_events', A, event_name, T)
                 /\ propagated_events'[A][event_name]
                      = Without(propagated_events[A][event_name], T)
            /\ \A o \in EventObjects \ {A} : propagated_events'[o] = propagated_events[o]
            /\ event_listeners' = event_listeners
            /\ (\A event_name \in EventNames : ~Edge(propagated_events, A, event_name, T))
               => propagated_events' = propagated_events
    ]_vars

\* A was given an edge to T (T holds A's teardown listener) and holds none
\* after A.stopPropagatingTo(T), while its edge to another target and T's
\* teardown listener are kept.
C15_Witness ==
  /\ last.op = "stopPropagatingTo" /\ last.result = "ok"
  /\ last.object \in Hosts /\ last.other \in Hosts
  /\ indexOf(event_listeners[last.other][Cleanup],
             TeardownListener(last.object, last.other)) # -1
  /\ \A event_name \in EventNames :
       ~Edge(propagated_events, last.object, event_name, last.other)
  /\ \E U \in EventObjects \ {last.other} :
       Edge(propagated_events, last.object, Wildcard, U)

NoDuplicates(seq) == \A i, j \in 1..Len(seq) : seq[i] = seq[j] => i = j

\* C16: propagateEventTo is idempotent per (event name, target): a call
\* A.propagateEventTo(E, T) made while the edge (A, E, T) is present leaves
\* every registry as it was; so no target sequence ever holds an object twice,
\* and one triggerEvent of E on A triggers no object twice directly from A.
C16_PropagateToIdempotent ==
  [][ /\ ( /\ last'.op = "propagateEventTo" /\ last'.other \in EventObjects
           /\ Edge(propagated_events, last'.object, last'.event_name, last'.other) )
         => /\ event_listeners' = event_listeners
            /\ propagated_events' = propagated_events
      /\ \A o \in EventObjects, event_name \in EventNames :
           NoDuplicates(propagated_events'[o][event_name])
      /\ last'.op = "triggerEvent" => NoDuplicates(ChildrenOf(log', <<last'.object>>))
    ]_vars

\* A.propagateEventTo(E, T) has succeeded a second time: A's teardown listener
\* on T is older than a handler registered since, none was added after it, and
\* T is once in A's targets for E, A's only edge.
C16_Witness ==
  /\ PropagateCall /\ last.result = "ok"
  /\ last.object \in Hosts /\ last.other \in Hosts /\ last.object # last.other
  /\ \E id \in HandlerIds :
       event_listeners[last.other][Cleanup]
         = <<TeardownListener(last.object, last.other), Handler(id)>>
  /\ \A event_name \in EventNames :
       propagated_events[last.object][event_name]
         = IF event_name = last.event_name THEN <<last.other>> ELSE <<>>

Range(seq) == {seq[i] : i \in 1..Len(seq)}

\* The objects `object` holds an edge to, under any event name.
TargetsUnderAnyName(pe, object) ==
  {t \in EventObjects : \E event_name \in EventNames : Edge(pe, object, event_name, t)}

\* C17: A.directPropagationTargets() returns, each exactly once, the objects
\* A holds an edge to under any event name; A.directPropagationTargets(E)
\* returns, each exactly once, the objects A holds an edge to under E or "*".
C17_DirectTargetsUnion ==
  last.op = "directPropagationTargets"
  => LET A == last.object
         returned == last.args
     IN /\ NoDuplicates(returned)
        /\ Range(returned) = IF last.event_name = Undefined
                             THEN TargetsUnderAnyName(propagated_events, A)
                             ELSE Forwards(propagated_events, last.event_name, A)

\* A holds an edge to T under two names and to U under a third:
\* A.directPropagationTargets() has returned T and U, each once.
C17_Witness ==
  /\ last.op = "directPropagationTargets" /\ last.event_name = Undefined
  /\ Len(last.args) = 2
  /\ \E T, U \in EventObjects :
       /\ T # U /\ Range(last.args) = {T, U}
       /\ Edge(propagated_events, last.object, "load", T)
       /\ Edge(propagated_events, last.object, Wildcard, T)
       /\ Edge(propagated_events, last.object, Cleanup, U)

\* C18: the teardown listener is keyed to the first edge to a target, not to
\* the event name.  A successful A.propagateEventTo(E, T) (or
\* T.propagateEventFrom(E, A)) appends A's teardown listener to T's listeners
\* under "eventmodelcleanup" exactly when A held no edge to T under any event
\* name at call time, and registers nothing else.
C18_TeardownOnFirstEdge ==
  [][ (last'.op \in {"propagateEventTo", "propagateEventFrom"} /\ last'.result = "ok")
      => LET A == IF last'.op = "propagateEventTo" THEN last'.object ELSE last'.other
             T == IF last'.op = "propagateEventTo" THEN last'.other ELSE last'.object
             held == T \in TargetsUnderAnyName(propagated_events, A)
         IN /\ event_listeners'[T][Cleanup]
                 = IF held THEN event_listeners[T][Cleanup]
                   ELSE Append(event_listeners[T][Cleanup], TeardownListener(A, T))
            /\ \A o \in EventObjects, event_name \in EventNames :
                 <<o, event_name>> # <<T, Cleanup>>
                 => event_listeners'[o][event_name] = event_listeners[o][event_name]
    ]_vars

\* A holds edges to T under three event names, and T holds one teardown
\* listener, A's.
C18_Witness ==
  /\ PropagateCall /\ last.result = "ok"
  /\ last.object \in Hosts /\ last.other \in Hosts /\ last.object # last.other
  /\ \A event_name \in EventNames :
       Edge(propagated_events, last.object, event_name, last.other)
  /\ event_listeners[last.other][Cleanup] = <<TeardownListener(last.object, last.other)>>

\* C19: the dispatch keeps the object the event was triggered on as the
\* execution context, and a teardown listener acts only when that context is
\* its own target.  A triggerEvent on X, of "eventmodelcleanup" or any other
\* event, wherever it propagates, leaves in place, and in order, every edge
\* that points at an object other than X; an event other than
\* "eventmodelcleanup" removes none at all.
C19_TeardownOnlyForOwnTarget ==
  [][ last'.op = "triggerEvent"
      => /\ \A o \in EventObjects, event_name \in EventNames :
              Without(propagated_events'[o][event_name], last'.object)
                = Without(propagated_events[o][event_name], last'.object)
         /\ last'.event_name # Cleanup => propagated_events' = propagated_events
         /\ \A i \in 1..Len(log') : log'[i].this = last'.object
    ]_vars

\* The cleanup event triggered on X has reached B by propagation and called
\* the teardown listener A registered on B, with X as its context: A's edge
\* to B and X's edge to B are still there.
C19_Witness ==
  /\ TriggerCall /\ last.event_name = Cleanup /\ last.result = "ok"
  /\ \E A, B \in Hosts :
       /\ A # B /\ A # last.object /\ B # last.object
       /\ \E i \in 1..Len(log) :
            /\ log[i].kind = "call" /\ log[i].frame = <<last.object, B>>
            /\ log[i].callback = TeardownListener(A, B)
            /\ log[i].this = last.object
       /\ B \in TargetsUnderAnyName(propagated_events, A)
       /\ B \in Forwards(propagated_events, Cleanup, last.object)

\* C20: a triggerEvent dispatches over the targets its object had when the
\* call started, before any listener ran.  When a listener of A, during A's
\* dispatch of E, adds an edge from A or removes one (by stopPropagatingTo or
\* by triggering the cleanup event on a target), the objects A's call triggers
\* and whether it falls back on the root are those of A's targets at the
\* start; a dispatch cut by an error has triggered a prefix of them.
C20_DispatchOverSnapshot ==
  [][ last'.op = "triggerEvent"
      => LET A == last'.object
             due == DueTargets(propagated_events[A], last'.event_name, A)
             triggered == ChildrenOf(log', <<A>>)
         IN IF last'.result = "ok" THEN triggered = due
            ELSE IsPrefix(triggered, due)
    ]_vars

\* A's listener under "load" has added the edge (A, "load", T) during A's
\* dispatch of "load": the edge is recorded, T was not triggered, and the
\* fallback on the root fired as for the A without targets of the start.
C20_Witness ==
  /\ TriggerCall /\ last.result = "ok" /\ last.event_name = "load"
  /\ last.object \in Hosts
  /\ \E T \in Hosts \ {last.object} :
       /\ event_listeners[last.object]["load"]
            = <<GraphHandler("propagateEventTo", last.object, T)>>
       /\ propagated_events[last.object]["load"] = <<T>>
       /\ event_listeners[T][Cleanup] = <<TeardownListener(last.object, T)>>
  /\ Entered(log) = << <<last.object>>, <<last.object, Root>> >>

====
